---- MODULE Spec2Model ----
(***************************************************************************)
(* Model of the consul client operator.                                    *)
(*                                                                         *)
(*   - src/src/charm.py            the event handlers and the configuration*)
(*                                 reconciliation cycle (_configure)       *)
(*   - src/src/config_builder.py   ConsulConfigBuilder.build               *)
(*   - src/src/tcp_health_check.py one round of tcp_check with its         *)
(*                                 persisted failure counter               *)
(*                                                                         *)
(* Four specifications share the variables: Spec (the charm's events),     *)
(* BuildSpec (the builder applied to enumerated inputs), MonitorSpec       *)
(* (rounds of tcp_check) and MainSpec (runs of the script, which parse the *)
(* command line and call tcp_check).  Each leaves the other parts'         *)
(* variables alone.                                                        *)
(***************************************************************************)
EXTENDS Integers, Sequences, FiniteSets, TLC

VARIABLES
    \* ---- charm: what the unit sees (relation data, config, host) ----
    bind_address,           \* the consul binding's address; "" stands for None
    datacenter,             \* consul.datacenter; "" stands for None
    gossip_endpoints,       \* consul.external_gossip_endpoints; <<>> stands for None or []
    healthcheck_endpoints,  \* relation key external_gossip_healthcheck_endpoints
    is_ready,               \* consul_notify.is_ready
    unix_socket_filepath,   \* consul_notify.unix_socket_filepath; "" stands for None
    serf_lan_port,          \* config option serf-lan-port
    enable_health_check,    \* config option enable-health-check
    snap_present,           \* snap.present
    \* ---- charm: what the handlers change ----
    config_file,            \* client.json on disk
    script_exists,          \* the probe artifact at consul_tcp_check
    unit_status,            \* unit.status
    last,                   \* what the last handler run did (calls, results)
    \* ---- builder applied on its own ----
    b_in, b_out,
    \* ---- monitor ----
    state_file,             \* the persisted failure state
    args_servers,           \* the servers on the command line
    args_monitoring_samples, \* --monitoring-samples
    args_socket_path,       \* --socket-path; "" stands for None
    snap_data_set,          \* whether SNAP_DATA is in the environment
    round,                  \* what the last round of tcp_check did
    \* ---- two monitors side by side ----
    instances,              \* each monitor's environment and position in tcp_check
    files,                  \* the state files by path
    \* ---- send_nic_down_alert applied on its own ----
    a_in, a_out

charm_vars == <<bind_address, datacenter, gossip_endpoints, healthcheck_endpoints, is_ready,
                unix_socket_filepath, serf_lan_port, enable_health_check,
                snap_present, config_file, script_exists, unit_status, last>>
build_vars == <<b_in, b_out>>
pair_vars == <<instances, files>>
alert_vars == <<a_in, a_out>>
monitor_vars == <<state_file, args_servers, args_monitoring_samples, args_socket_path,
                  snap_data_set, round, pair_vars, alert_vars>>
vars == <<charm_vars, build_vars, monitor_vars>>

(***************************************************************************)
(* Bounds of the model.                                                    *)
(***************************************************************************)
MaxServers == 2     \* longest server list handed to the builder
MaxTargets == 2     \* longest target list of a round of tcp_check
MaxSamples == 3     \* largest monitoring_samples a round is run with
MaxCount == 4       \* no round is started once failure_count exceeds this

(***************************************************************************)
(* Python values.  A str and a dict are different types: == between them   *)
(* is False whatever they hold.                                            *)
(***************************************************************************)
PyStr(chars) == [type |-> "str", chars |-> chars]
PyDict(d) == [type |-> "dict", chars |-> <<d>>]
PyEq(a, b) == a.type = b.type /\ a.chars = b.chars

\* json.dumps(d, indent=2): the text of d.  A text is kept as the sequence of
\* the documents it spells, so "" is the text of nothing.
json_dumps(d) == PyStr(<<d>>)
EmptyStr == PyStr(<<>>)

Truthy(s) == s # ""
NonEmpty(l) == Len(l) > 0

\* utils.get_hostname(): the host's name
get_hostname == "node"

(***************************************************************************)
(* config_builder.py                                                       *)
(***************************************************************************)
\* Mutation of get_consul_ports: serf_lan is the default port whatever the
\* option says.
get_consul_ports_default_serf(serf) ==
    [dns |-> -1, http |-> -1, https |-> -1, grpc |-> -1, grpc_tls |-> -1,
     serf_lan |-> 8301, serf_wan |-> -1, server |-> 8300,
     sidecar_min_port |-> 0, sidecar_max_port |-> 0,
     expose_min_port |-> 0, expose_max_port |-> 0]

\* charm.py get_consul_ports: the twelve fields of Ports.
get_consul_ports(serf) ==
    [dns |-> -1, http |-> -1, https |-> -1, grpc |-> -1, grpc_tls |-> -1,
     serf_lan |-> serf, serf_wan |-> -1, server |-> 8300,
     sidecar_min_port |-> 0, sidecar_max_port |-> 0,
     expose_min_port |-> 0, expose_max_port |-> 0]

consul_tcp_check == "/var/snap/consul-client_key/common/consul/data/tcp_health_check.py"

\* ConsulConfigBuilder.__init__: bind_address or "0.0.0.0"
BindOrDefault(bind) == IF Truthy(bind) THEN bind ELSE "0.0.0.0"

\* Mutation of CheckArgs: the option comes before the addresses.
CheckArgs_socket_first(consul_servers, socket_path) ==
    <<"python3", consul_tcp_check, "--socket-path", socket_path>> \o consul_servers

\* Mutation of BranchActive: the health-check branch is never taken.
BranchActive_never(tcp_check, socket_path) == FALSE

\* Mutation of BranchActive: the socket path is not looked at.
BranchActive_without_socket(tcp_check, socket_path) == tcp_check

\* build, line 79: if self.tcp_check and self.unix_socket_filepath
BranchActive(tcp_check, socket_path) == tcp_check /\ Truthy(socket_path)

\* build, lines 83-84: the check's argument vector
CheckArgs(consul_servers, socket_path) ==
    <<"python3", consul_tcp_check>> \o consul_servers \o <<"--socket-path", socket_path>>

\* build, lines 86-97
Services(consul_servers, socket_path) ==
    << [name |-> "tcp-health-check",
        check |-> [id |-> "tcp-check",
                   name |-> "TCP Health Check",
                   args |-> CheckArgs(consul_servers, socket_path),
                   interval |-> "10s",
                   timeout |-> "5s"]] >>

\* Mutation of BaseConfig: retry_join lists the servers last to first.
BaseConfig_reversed(bind, dc, consul_servers, ports) ==
    [bind_addr |-> BindOrDefault(bind),
     datacenter |-> dc,
     node_name |-> get_hostname,
     ports |-> [dns |-> ports.dns, http |-> ports.http, https |-> ports.https,
                grpc |-> ports.grpc, grpc_tls |-> ports.grpc_tls,
                serf_lan |-> ports.serf_lan, serf_wan |-> ports.serf_wan,
                server |-> ports.server],
     retry_join |-> [i \in 1..Len(consul_servers) |->
                        consul_servers[Len(consul_servers) + 1 - i]]]

\* build, lines 62-77
BaseConfig(bind, dc, consul_servers, ports) ==
    [bind_addr |-> BindOrDefault(bind),
     datacenter |-> dc,
     node_name |-> get_hostname,
     ports |-> [dns |-> ports.dns, http |-> ports.http, https |-> ports.https,
                grpc |-> ports.grpc, grpc_tls |-> ports.grpc_tls,
                serf_lan |-> ports.serf_lan, serf_wan |-> ports.serf_wan,
                server |-> ports.server],
     retry_join |-> consul_servers]

\* ConsulConfigBuilder(...).build(): the document returned.
build(bind, dc, tcp_check, consul_servers, ports, socket_path) ==
    IF BranchActive(tcp_check, socket_path)
    THEN BaseConfig(bind, dc, consul_servers, ports)
         @@ [enable_script_checks |-> TRUE,
             services |-> Services(consul_servers, socket_path)]
    ELSE BaseConfig(bind, dc, consul_servers, ports)

\* Mutation of write_tcp_check_script: the copy is made whether or not the
\* destination exists.
write_tcp_check_script_always_copies(exists, copy_ok) ==
    IF copy_ok THEN [exists |-> TRUE, copies |-> 1, raised |-> FALSE]
    ELSE [exists |-> exists, copies |-> 1, raised |-> TRUE]

\* _write_tcp_check_script: copies only when the destination does not exist;
\* a failing copy is re-raised.
write_tcp_check_script(exists, copy_ok) ==
    IF exists THEN [exists |-> TRUE, copies |-> 0, raised |-> FALSE]
    ELSE IF copy_ok THEN [exists |-> TRUE, copies |-> 1, raised |-> FALSE]
    ELSE [exists |-> FALSE, copies |-> 1, raised |-> TRUE]

\* One call of build() with its effect on the probe artifact: the script is
\* placed (line 80) before the document is assembled; a failing copy leaves
\* no document.
run_build(bind, dc, tcp_check, consul_servers, ports, socket_path, exists, copy_ok) ==
    LET s == IF BranchActive(tcp_check, socket_path)
             THEN write_tcp_check_script(exists, copy_ok)
             ELSE [exists |-> exists, copies |-> 0, raised |-> FALSE]
    IN  [script |-> s.exists, copies |-> s.copies, raised |-> s.raised,
         doc |-> IF s.raised THEN <<>>
                 ELSE <<build(bind, dc, tcp_check, consul_servers, ports, socket_path)>>]

(***************************************************************************)
(* charm.py                                                                *)
(***************************************************************************)
Active == "Active"
BlockedMissing == "Blocked: Integration consul-cluster missing"
BlockedRestart == "Blocked: Failed to restart consul-client_key"
BlockedInstall == "Blocked: Failed to install snap consul-client_key"
BlockedRemove == "Blocked: Failed to remove consul-client_key"
MaintenanceStarting == "Maintenance: Starting consul-client_key snap"
MaintenanceStopping == "Maintenance: Stopping consul-client_key snap"
MaintenanceUninstalling == "Maintenance: Uninstalling consul-client_key snap"
MaintenanceInitial == "Maintenance"

\* What a handler reads: the relation data, the config and the binding.
Inputs == [bind |-> bind_address, dc |-> datacenter, eps |-> gossip_endpoints,
           hc |-> healthcheck_endpoints, ready |-> is_ready,
           socket |-> unix_socket_filepath, serf |-> serf_lan_port,
           enable |-> enable_health_check]

\* What a handler has done so far: the host state it leaves and its calls.
Begin(status) ==
    [file |-> config_file, script |-> script_exists, status |-> status,
     snap |-> snap_present,
     from_blocked |-> unit_status = BlockedMissing,
     configured |-> FALSE, gated |-> FALSE, built |-> FALSE,
     not_found |-> FALSE, text_equal |-> FALSE, changed |-> FALSE,
     raised |-> FALSE, copy_failed |-> FALSE, write_failed |-> FALSE,
     restart_failed |-> FALSE,
     writes |-> 0, restarts |-> 0, copies |-> 0, installs |-> 0,
     connects |-> 0, disconnects |-> 0,
     disconnect_failed |-> FALSE, remove_failed |-> FALSE, removal |-> <<>>,
     socket_event |-> FALSE, connect_failed |-> FALSE, steps |-> <<>>,
     ensured |-> <<>>, install_blocked |-> FALSE]

\* _wait_for_mandatory_relations, line 160
wait_for_mandatory_relations(dc, eps) == ~Truthy(dc) /\ ~NonEmpty(eps)

\* Mutation of have_cluster_data: the join addresses are not looked at.
have_cluster_data_dc_only(dc, eps) == Truthy(dc)

\* _update_consul_config, line 169
have_cluster_data(dc, eps) == Truthy(dc) /\ NonEmpty(eps)

\* _update_consul_config, line 170
enable_tcp_check(in) == in.ready

\* Mutation of constructed_consul_config: the builder is given the dedicated
\* health-check addresses as its servers.
constructed_consul_config_from_healthcheck(in, exists, copy_ok) ==
    run_build(in.bind, in.dc, enable_tcp_check(in), in.hc,
              get_consul_ports(in.serf), in.socket, exists, copy_ok)

\* _update_consul_config, lines 172-180: the builder's arguments
constructed_consul_config(in, exists, copy_ok) ==
    run_build(in.bind, in.dc, enable_tcp_check(in), in.eps,
              get_consul_ports(in.serf), in.socket, exists, copy_ok)

\* _update_consul_config, lines 186-190: _read_configuration returns the
\* file's text (a str); FileNotFoundError gives "".
running_consul_config(file) == IF file.exists THEN file.text ELSE EmptyStr

\* Mutation of running_equals_constructed: the file always counts as up to
\* date.
running_equals_constructed_always(running, constructed) == TRUE

\* Mutation of running_equals_constructed: a missing file counts as up to
\* date.
running_equals_constructed_or_absent(running, constructed) ==
    running = EmptyStr \/ PyEq(running, PyDict(constructed))

\* _update_consul_config, line 191: the text read is compared with the dict
\* built, not with its serialization.
running_equals_constructed(running, constructed) ==
    PyEq(running, PyDict(constructed))

\* What the host does to the calls of one cycle.  The first failing call ends
\* the cycle (the copy and the write raise, a failed restart returns), so at
\* most one of them fails in a cycle:
\*   "copy"        shutil.copy raises
\*   "write_open"  open(path, "w") raises and the file stays as it was
\*   "write"       the write raises after open(path, "w") truncated the file
\*   "restart"     snap.restart raises SnapError
Faults == {"none", "copy", "write_open", "write", "restart"}

\* _write_configuration
write_configuration(file, text, fault) ==
    IF fault = "write_open" THEN file
    ELSE IF fault = "write" THEN [exists |-> TRUE, text |-> EmptyStr]
    ELSE [exists |-> TRUE, text |-> text]

\* Mutation of write_raises: a failing write is swallowed.
write_raises_swallowed(fault) == FALSE

\* _write_configuration has no try: what open() or f.write() raises leaves it,
\* _update_consul_config, _configure and the handler.
write_raises(fault) == fault \in {"write_open", "write"}

\* _update_consul_config
update_consul_config(o, in, fault) ==
    IF ~have_cluster_data(in.dc, in.eps)
    THEN [o EXCEPT !.status = BlockedMissing]
    ELSE LET b == constructed_consul_config(in, o.script, fault # "copy")
             running == running_consul_config(o.file)
             o1 == [o EXCEPT !.script = b.script, !.copies = b.copies,
                             !.copy_failed = b.copies = 1 /\ fault = "copy"]
         IN  IF b.raised THEN [o1 EXCEPT !.raised = TRUE]
             ELSE LET doc == b.doc[1]
                      o2 == [o1 EXCEPT !.built = TRUE,
                                       !.not_found = ~o.file.exists,
                                       !.text_equal = PyEq(running, json_dumps(doc))]
                  IN  IF running_equals_constructed(running, doc) THEN o2
                      ELSE [o2 EXCEPT
                              !.file = write_configuration(o.file, json_dumps(doc), fault),
                              !.writes = 1,
                              !.write_failed = fault \in {"write_open", "write"},
                              !.changed = ~write_raises(fault),
                              !.raised = write_raises(fault)]

\* Mutation of status_after_restart: a failed restart falls through to the
\* final ActiveStatus.
status_after_restart_falls_through(restart_ok) == Active

\* _configure, lines 148-155: the status after snap.restart
status_after_restart(restart_ok) == IF restart_ok THEN Active ELSE BlockedRestart

\* _configure
configure(o0, in, fault) ==
    LET o == [o0 EXCEPT !.configured = TRUE]
    IN  IF wait_for_mandatory_relations(in.dc, in.eps)
        THEN [o EXCEPT !.status = BlockedMissing, !.gated = TRUE]
        ELSE LET u == update_consul_config(o, in, fault)
             IN  IF u.raised THEN u
                 ELSE IF u.changed
                 THEN [u EXCEPT !.restarts = 1,
                                !.restart_failed = fault = "restart",
                                !.status = status_after_restart(fault # "restart")]
                 ELSE [u EXCEPT !.status = Active]

\* Mutation of ensure_snap_present: the snap is installed and connected
\* whether or not it is present.
ensure_snap_present_always_installs(o, install_ok, connect_ok) ==
    IF install_ok
    THEN [o EXCEPT !.snap = TRUE, !.installs = 1, !.connects = 1,
                   !.connect_failed = ~connect_ok, !.ensured = <<TRUE>>]
    ELSE [o EXCEPT !.installs = 1, !.status = BlockedInstall,
                   !.install_blocked = TRUE, !.ensured = <<FALSE>>]

\* _ensure_snap_present, lines 230-250: installs and connects only when the
\* snap is absent; `ensured` is what it returns.  A failing connect is caught
\* in _connect_snap_interface.
ensure_snap_present(o, install_ok, connect_ok) ==
    IF o.snap THEN [o EXCEPT !.ensured = <<TRUE>>]
    ELSE IF install_ok
         THEN [o EXCEPT !.snap = TRUE, !.installs = 1, !.connects = 1,
                        !.connect_failed = ~connect_ok, !.ensured = <<TRUE>>]
         ELSE [o EXCEPT !.installs = 1, !.status = BlockedInstall,
                        !.install_blocked = TRUE, !.ensured = <<FALSE>>]

\* The handler's outcome becomes the state; `fresh` says that nothing the
\* handlers read has changed since.
Finish(o) ==
    /\ config_file' = o.file
    /\ script_exists' = o.script
    /\ unit_status' = o.status
    /\ snap_present' = o.snap
    /\ last' = [fresh |-> TRUE,
                repeat |-> last.fresh /\ last.built /\ ~last.raised,
                from_blocked |-> o.from_blocked,
                configured |-> o.configured, gated |-> o.gated,
                built |-> o.built, not_found |-> o.not_found,
                text_equal |-> o.text_equal,
                changed |-> o.changed, raised |-> o.raised,
                copy_failed |-> o.copy_failed,
                write_failed |-> o.write_failed,
                restart_failed |-> o.restart_failed,
                writes |-> o.writes, restarts |-> o.restarts,
                copies |-> o.copies, installs |-> o.installs,
                connects |-> o.connects, disconnects |-> o.disconnects,
                disconnect_failed |-> o.disconnect_failed,
                remove_failed |-> o.remove_failed, removal |-> o.removal,
                socket_event |-> o.socket_event,
                connect_failed |-> o.connect_failed, steps |-> o.steps,
                ensured |-> o.ensured, install_blocked |-> o.install_blocked]
    /\ UNCHANGED <<bind_address, datacenter, gossip_endpoints, healthcheck_endpoints,
                   is_ready, unix_socket_filepath, serf_lan_port,
                   enable_health_check, build_vars, monitor_vars>>

\* The results that are drawn are those of the calls a handler makes: an
\* install only while the snap is absent, a connect only after an install
\* that succeeded, the faults of _update_consul_config and of the restart only
\* when _configure gets past _wait_for_mandatory_relations.
InstallResults == IF snap_present THEN {TRUE} ELSE BOOLEAN
ConnectResults(install_ok) == IF snap_present \/ ~install_ok THEN {TRUE} ELSE BOOLEAN
FaultsNow ==
    IF wait_for_mandatory_relations(datacenter, gossip_endpoints) THEN {"none"} ELSE Faults

on_install ==
    \E install_ok \in InstallResults : \E connect_ok \in ConnectResults(install_ok) :
        Finish(ensure_snap_present(Begin(unit_status), install_ok, connect_ok))

on_start ==
    \E fault \in FaultsNow :
        Finish(configure(Begin(MaintenanceStarting), Inputs, fault))

on_stop ==
    \E fault \in FaultsNow :
        Finish(configure(Begin(MaintenanceStopping), Inputs, fault))

\* Mutation of disconnect_caught: a failing disconnect command propagates.
disconnect_caught_never(disconnect_ok) == disconnect_ok

\* _disconnect_snap_interface, lines 224-228: CalledProcessError of the
\* disconnect command is caught and logged.
disconnect_caught(disconnect_ok) == TRUE

\* _on_remove, lines 97-107: the status is set, the interface is disconnected,
\* then the snap is ensured Absent; SnapError from ensure blocks the unit.
on_remove ==
    \E disconnect_ok, remove_ok \in BOOLEAN :
        LET o == [Begin(MaintenanceUninstalling) EXCEPT
                      !.disconnects = 1, !.removal = <<"disconnect">>,
                      !.disconnect_failed = ~disconnect_ok]
            e == [o EXCEPT !.removal = <<"disconnect", "ensure_absent">>]
        IN  Finish(IF ~disconnect_caught(disconnect_ok)
                   THEN [o EXCEPT !.raised = TRUE]
                   ELSE IF remove_ok THEN [e EXCEPT !.snap = FALSE]
                   ELSE [e EXCEPT !.status = BlockedRemove,
                                  !.remove_failed = TRUE])

on_upgrade ==
    \E install_ok \in InstallResults, fault \in FaultsNow :
      \E connect_ok \in ConnectResults(install_ok) :
        Finish(configure(ensure_snap_present(Begin(unit_status), install_ok, connect_ok),
                         Inputs, fault))

on_config_changed ==
    \E install_ok \in InstallResults, fault \in FaultsNow :
      \E connect_ok \in ConnectResults(install_ok) :
        Finish(configure(ensure_snap_present(Begin(unit_status), install_ok, connect_ok),
                         Inputs, fault))

on_consul_cluster_endpoints_changed ==
    \E fault \in FaultsNow :
        Finish(configure(Begin(unit_status), Inputs, fault))

\* The snaps and the interface of the connect call, lines 126-128.
CONSUL_SOCKET_INTERFACE == "consul-socket"
snap_name == "consul-client_key"
notify_snap_name == "consul_notify.snap_name"
ConnectCall == <<"connect", snap_name, notify_snap_name, CONSUL_SOCKET_INTERFACE>>

\* Mutation of connect_caught: a failing connect propagates.
connect_caught_never(connect_ok) == connect_ok

\* _connect_snap_interface, lines 205-214: SnapError and SnapNotFoundError of
\* the connect are caught and logged.
connect_caught(connect_ok) == TRUE

\* _on_socket_available, lines 120-130: acts only if the notify relation is
\* ready; then the interface is connected and _configure runs.
on_socket_available ==
    \E fault \in IF is_ready THEN FaultsNow ELSE {"none"},
       connect_ok \in IF is_ready THEN BOOLEAN ELSE {TRUE} :
        LET o == [Begin(unit_status) EXCEPT !.socket_event = TRUE]
            c == [o EXCEPT !.connects = 1, !.connect_failed = ~connect_ok,
                           !.steps = <<ConnectCall>>]
        IN  Finish(IF is_ready
                   THEN IF ~connect_caught(connect_ok)
                        THEN [c EXCEPT !.raised = TRUE]
                        ELSE configure([c EXCEPT !.steps = Append(@, <<"_configure">>)],
                                       Inputs, fault)
                   ELSE o)

on_socket_gone ==
    \E fault \in FaultsNow :
        Finish(configure(Begin(unit_status), Inputs, fault))

(***************************************************************************)
(* The unit's surroundings: relation data, config options, the binding.    *)
(***************************************************************************)
GossipUniverse == <<"10.20.0.10:8301", "10.20.0.11:8301">>
HealthcheckUniverse == <<"10.30.0.10:8301", "10.30.0.11:8301">>

\* The consul-cluster relation's data: nothing, one of the two mandatory keys
\* alone, both (with one or two join addresses), and both with dedicated
\* health-check addresses.
ClusterViews ==
    { [dc |-> "",        eps |-> <<>>,                       hc |-> <<>>],
      [dc |-> "test-dc", eps |-> <<>>,                       hc |-> <<>>],
      [dc |-> "",        eps |-> GossipUniverse,             hc |-> <<>>],
      [dc |-> "test-dc", eps |-> SubSeq(GossipUniverse,1,1), hc |-> <<>>],
      [dc |-> "test-dc", eps |-> GossipUniverse,             hc |-> <<>>],
      [dc |-> "test-dc", eps |-> GossipUniverse,             hc |-> HealthcheckUniverse] }

\* The consul-notify relation's data.
NotifyViews ==
    { [ready |-> FALSE, socket |-> ""],
      [ready |-> TRUE,  socket |-> "data/socket.sock"] }

\* The charm's config options.
Datacenters == {"", "test-dc"}
SocketPaths == {"", "data/socket.sock"}
SerfPorts == {8301, 9301}
BindAddresses == {"", "10.10.0.10"}

ConfigViews ==
    { [serf |-> 8301, enable |-> TRUE],
      [serf |-> 9301, enable |-> TRUE],
      [serf |-> 8301, enable |-> FALSE] }

\* Once what the handlers read has changed, the record of the last handler run
\* no longer describes a run on the current data: it is dropped.
NoRun == [fresh |-> FALSE, repeat |-> FALSE, from_blocked |-> FALSE,
          configured |-> FALSE, gated |-> FALSE, built |-> FALSE,
          not_found |-> FALSE, text_equal |-> FALSE, changed |-> FALSE,
          raised |-> FALSE, copy_failed |-> FALSE, write_failed |-> FALSE,
          restart_failed |-> FALSE,
          writes |-> 0, restarts |-> 0, copies |-> 0, installs |-> 0,
          connects |-> 0, disconnects |-> 0,
          disconnect_failed |-> FALSE, remove_failed |-> FALSE, removal |-> <<>>,
          socket_event |-> FALSE, connect_failed |-> FALSE, steps |-> <<>>,
          ensured |-> <<>>, install_blocked |-> FALSE]
Stale == last' = NoRun

cluster_relation_changed ==
    /\ \E v \in ClusterViews :
        /\ <<v.dc, v.eps, v.hc>> # <<datacenter, gossip_endpoints, healthcheck_endpoints>>
        /\ datacenter' = v.dc
        /\ gossip_endpoints' = v.eps
        /\ healthcheck_endpoints' = v.hc
    /\ Stale
    /\ UNCHANGED <<bind_address, is_ready, unix_socket_filepath, serf_lan_port,
                   enable_health_check, snap_present, config_file, script_exists,
                   unit_status, build_vars, monitor_vars>>

notify_relation_changed ==
    /\ \E v \in NotifyViews :
        /\ <<v.ready, v.socket>> # <<is_ready, unix_socket_filepath>>
        /\ is_ready' = v.ready
        /\ unix_socket_filepath' = v.socket
    /\ Stale
    /\ UNCHANGED <<bind_address, datacenter, gossip_endpoints, healthcheck_endpoints,
                   serf_lan_port, enable_health_check, snap_present, config_file,
                   script_exists, unit_status, build_vars, monitor_vars>>

config_options_changed ==
    /\ \E v \in ConfigViews :
        /\ <<v.serf, v.enable>> # <<serf_lan_port, enable_health_check>>
        /\ serf_lan_port' = v.serf
        /\ enable_health_check' = v.enable
    /\ Stale
    /\ UNCHANGED <<bind_address, datacenter, gossip_endpoints, healthcheck_endpoints,
                   is_ready, unix_socket_filepath, snap_present, config_file,
                   script_exists, unit_status, build_vars, monitor_vars>>

\* A fresh unit: no relation data, nothing installed, nothing on disk.  The
\* builder and the monitor are idle under this specification.
Init ==
    /\ bind_address = "10.10.0.10"
    /\ datacenter = ""
    /\ gossip_endpoints = <<>>
    /\ healthcheck_endpoints = <<>>
    /\ is_ready = FALSE
    /\ unix_socket_filepath = ""
    /\ serf_lan_port = 8301
    /\ enable_health_check = TRUE
    /\ snap_present = FALSE
    /\ config_file = [exists |-> FALSE, text |-> EmptyStr]
    /\ script_exists = FALSE
    /\ unit_status = MaintenanceInitial
    /\ last = NoRun
    /\ b_in = <<>>
    /\ b_out = <<>>
    /\ instances = <<>>
    /\ files = <<>>
    /\ a_in = <<>>
    /\ a_out = <<>>
    /\ state_file = [kind |-> "absent", n |-> 0]
    /\ args_monitoring_samples = 3
    /\ args_socket_path = ""
    /\ snap_data_set = TRUE
    /\ args_servers = <<>>
    /\ round = <<>>

Next ==
    \/ on_install
    \/ on_start
    \/ on_stop
    \/ on_remove
    \/ on_upgrade
    \/ on_config_changed
    \/ on_consul_cluster_endpoints_changed
    \/ on_socket_available
    \/ on_socket_gone
    \/ cluster_relation_changed
    \/ notify_relation_changed
    \/ config_options_changed

Spec == Init /\ [][Next]_vars

(***************************************************************************)
(* The builder on its own: build() applied to enumerated arguments.        *)
(***************************************************************************)
ServerUniverse == <<"10.20.0.10:8301", "10.20.0.11:8301", "10.20.0.12:8301",
                    "10.20.0.13:8301">>
ServerLists == {SubSeq(ServerUniverse, 1, k) : k \in 0..MaxServers}
                 \cup {<<ServerUniverse[2], ServerUniverse[1]>>}

BuildInputs ==
    [bind : BindAddresses, dc : Datacenters, tcp_check : BOOLEAN,
     servers : ServerLists, serf : SerfPorts, socket : SocketPaths,
     exists : BOOLEAN, copy_ok : BOOLEAN]

BuildInit ==
    /\ b_in \in BuildInputs
    /\ b_out = <<>>
    /\ instances = <<>>
    /\ files = <<>>
    /\ a_in = <<>>
    /\ a_out = <<>>
    /\ bind_address = "10.10.0.10"
    /\ datacenter = ""
    /\ gossip_endpoints = <<>>
    /\ healthcheck_endpoints = <<>>
    /\ is_ready = FALSE
    /\ unix_socket_filepath = ""
    /\ serf_lan_port = 8301
    /\ enable_health_check = TRUE
    /\ snap_present = FALSE
    /\ config_file = [exists |-> FALSE, text |-> EmptyStr]
    /\ script_exists = FALSE
    /\ unit_status = MaintenanceInitial
    /\ last = NoRun
    /\ state_file = [kind |-> "absent", n |-> 0]
    /\ args_monitoring_samples = 3
    /\ args_socket_path = ""
    /\ snap_data_set = TRUE
    /\ args_servers = <<>>
    /\ round = <<>>

\* ConsulConfigBuilder(...).build()
apply_build ==
    /\ b_out = <<>>
    /\ b_out' = <<run_build(b_in.bind, b_in.dc, b_in.tcp_check, b_in.servers,
                            get_consul_ports(b_in.serf), b_in.socket,
                            b_in.exists, b_in.copy_ok)>>
    /\ UNCHANGED <<b_in, charm_vars, monitor_vars>>

next_build_input ==
    /\ b_out # <<>>
    /\ b_in' \in BuildInputs
    /\ b_out' = <<>>
    /\ UNCHANGED <<charm_vars, monitor_vars>>

BuildNext == apply_build \/ next_build_input

BuildSpec == BuildInit /\ [][BuildNext]_vars

(***************************************************************************)
(* tcp_health_check.py                                                     *)
(***************************************************************************)
\* The state file: absent, a file json.load cannot read, or
\* {"failure_count": n}.
Absent == [kind |-> "absent", n |-> 0]
Garbage == [kind |-> "garbage", n |-> 0]
Count(n) == [kind |-> "count", n |-> n]

\* Mutation of read_failure_count: a file that cannot be read counts as one
\* failure.
read_failure_count_unreadable_one(f) ==
    IF f.kind = "count" THEN f.n ELSE IF f.kind = "garbage" THEN 1 ELSE 0

\* read_failure_count: 0 when the file does not exist or cannot be read.
read_failure_count(f) == IF f.kind = "count" THEN f.n ELSE 0

\* write_failure_count never raises.  "fail_open": open(state_file, "w") fails
\* and the file stays as it was; "fail_write": the dump fails after the open
\* truncated the file.
StateWrites == {"ok", "fail_open", "fail_write"}
write_failure_count(f, n, w) ==
    IF w = "ok" THEN Count(n)
    ELSE IF w = "fail_write" THEN Garbage
    ELSE f

\* send_nic_down_alert.  os.environ["SNAP_DATA"] (line 65) is read before the
\* try: without the variable the KeyError leaves the function.  Everything
\* from connect on is caught and logged.
AlertOutcomes == {"ok", "error_status", "connect_fail", "send_fail", "recv_fail", "bad_json"}

\* Mutation of send_nic_down_alert: json.loads of the response is outside the
\* try, so a response that is not JSON raises to the caller.
send_nic_down_alert_parse_uncaught(snap_data, a) ==
    [raised |-> ~snap_data \/ a = "bad_json",
     connected |-> snap_data /\ a # "connect_fail",
     sent |-> snap_data /\ a \notin {"connect_fail", "send_fail"},
     confirmed |-> snap_data /\ a = "ok"]

send_nic_down_alert(snap_data, a) ==
    IF ~snap_data
    THEN [raised |-> TRUE, connected |-> FALSE, sent |-> FALSE, confirmed |-> FALSE]
    ELSE [raised |-> FALSE,
          connected |-> a # "connect_fail",
          sent |-> a \notin {"connect_fail", "send_fail"},
          confirmed |-> a = "ok"]

\* send_nic_down_alert, lines 65-91, by the calls it makes on the socket.
PROTOCOL_VERSION == "1.0"
NIC_DOWN == "nic-down"
RECV_BYTES == 1024

\* lines 68-72
alert_message(now) ==
    [version |-> PROTOCOL_VERSION, timestamp |-> now, status |-> NIC_DOWN]

\* Mutation of calls_made: the message is sent although connect failed.
calls_made_despite_connect(a) ==
    IF a \in {"connect_fail", "send_fail"} THEN 3 ELSE IF a = "recv_fail" THEN 4 ELSE 5

\* lines 77-84: how far the exchange gets.  The call that raises is the last
\* one made: socket() and connect, then sendall, then recv, then json.loads.
calls_made(a) ==
    IF a = "connect_fail" THEN 2
    ELSE IF a = "send_fail" THEN 3
    ELSE IF a = "recv_fail" THEN 4
    ELSE 5

\* The calls of one send_nic_down_alert(socket_path), in order.  "" stands for
\* SNAP_DATA not set: line 65 raises and nothing is called.  os.path.join of
\* SNAP_DATA and a relative socket_path is written as the pair of the two.
alert_exchange(snap_data, socket_path, now, a) ==
    IF snap_data = "" THEN <<>>
    ELSE SubSeq(<<[call |-> "socket", family |-> "AF_UNIX", type |-> "SOCK_STREAM",
                   path |-> <<>>, data |-> <<>>, bufsize |-> 0],
                  [call |-> "connect", family |-> "", type |-> "",
                   path |-> <<snap_data, socket_path>>, data |-> <<>>, bufsize |-> 0],
                  [call |-> "sendall", family |-> "", type |-> "",
                   path |-> <<>>, data |-> <<alert_message(now)>>, bufsize |-> 0],
                  [call |-> "recv", family |-> "", type |-> "",
                   path |-> <<>>, data |-> <<>>, bufsize |-> RECV_BYTES],
                  [call |-> "json.loads", family |-> "", type |-> "",
                   path |-> <<>>, data |-> <<>>, bufsize |-> 0]>>,
                1, calls_made(a))

\* tcp_check, lines 115-124: every server is split and probed in list order;
\* `attempts` counts the calls of create_connection and `order` lists the
\* positions of the servers they were made for.
\* A probe is "ok", "unreachable" (socket.timeout or socket.error) or
\* "malformed" (server.split(":") or int(port) raises ValueError, which
\* nothing catches).
ProbeResults == {"ok", "unreachable", "malformed"}

\* Mutation of probe_servers: the result of a later probe replaces nic_down,
\* so a reachable target after an unreachable one clears it.
RECURSIVE probe_servers_last_wins(_, _, _)
probe_servers_last_wins(probes, i, acc) ==
    IF i > Len(probes) THEN acc
    ELSE IF probes[i] = "malformed" THEN [acc EXCEPT !.raised = "ValueError"]
    ELSE probe_servers_last_wins(probes, i + 1,
                       [acc EXCEPT !.attempts = @ + 1, !.order = Append(@, i),
                                   !.nic_down = probes[i] = "unreachable"])

\* Mutation of probe_servers: a malformed address is skipped.
RECURSIVE probe_servers_skip_malformed(_, _, _)
probe_servers_skip_malformed(probes, i, acc) ==
    IF i > Len(probes) THEN acc
    ELSE IF probes[i] = "malformed"
    THEN probe_servers_skip_malformed(probes, i + 1, acc)
    ELSE probe_servers_skip_malformed(probes, i + 1,
                       [acc EXCEPT !.attempts = @ + 1, !.order = Append(@, i),
                                   !.nic_down = @ \/ probes[i] = "unreachable"])

\* Mutation of probe_servers: the loop ends at the first unreachable target.
RECURSIVE probe_servers_short_circuit(_, _, _)
probe_servers_short_circuit(probes, i, acc) ==
    IF i > Len(probes) \/ acc.nic_down THEN acc
    ELSE IF probes[i] = "malformed" THEN [acc EXCEPT !.raised = "ValueError"]
    ELSE probe_servers_short_circuit(probes, i + 1,
                       [acc EXCEPT !.attempts = @ + 1, !.order = Append(@, i),
                                   !.nic_down = @ \/ probes[i] = "unreachable"])

RECURSIVE probe_servers(_, _, _)
probe_servers(probes, i, acc) ==
    IF i > Len(probes) THEN acc
    ELSE IF probes[i] = "malformed" THEN [acc EXCEPT !.raised = "ValueError"]
    ELSE probe_servers(probes, i + 1,
                       [acc EXCEPT !.attempts = @ + 1, !.order = Append(@, i),
                                   !.nic_down = @ \/ probes[i] = "unreachable"])

\* Mutation of threshold_reached: the first failed round already alerts.
threshold_reached_at_once(failure_count, samples) == failure_count >= 1

\* Mutation of threshold_reached: no count is high enough.
threshold_reached_never(failure_count, samples) == FALSE

\* Mutation of threshold_reached: the alert comes one round late.
threshold_reached_late(failure_count, samples) == failure_count > samples

\* tcp_check, line 137
threshold_reached(failure_count, samples) == failure_count >= samples

\* Mutation of reset_on_success: the state file is rewritten on every success.
reset_on_success_always(failure_count) == TRUE

\* Mutation of reset_on_success: a single recorded failure is not cleared.
reset_on_success_above_one(failure_count) == failure_count > 1

\* tcp_check, line 150
reset_on_success(failure_count) == failure_count > 0

\* Mutation of count_after_write: a count that could not be written is
\* forgotten.
count_after_write_lost(failure_count, written) ==
    IF written THEN failure_count ELSE failure_count - 1

\* tcp_check, lines 134-137: the result of write_failure_count is not looked
\* at; the round goes on with the count it holds.
count_after_write(failure_count, written) == failure_count

\* Mutation of count_after_alert: the count is left as it is after the alert.
count_after_alert_kept(failure_count) == failure_count

\* tcp_check, line 141: the count written once send_nic_down_alert returned.
count_after_alert(failure_count) == 0

\* Mutation of have_transport: the alert is sent without a socket path.
have_transport_always(socket) == TRUE

\* tcp_check, line 138: if socket_path
have_transport(socket) == Truthy(socket)

NoRound ==
    [ran |-> FALSE, probes |-> <<>>, targets |-> 0, attempts |-> 0, order |-> <<>>,
     nic_down |-> FALSE, raised |-> "",
     read |-> "", prior |-> 0, failure_count |-> 0, written |-> <<>>, write_results |-> <<>>,
     alerts |-> 0, alert |-> "none", confirmed |-> FALSE, reset |-> FALSE,
     no_transport |-> FALSE, exit |-> <<>>, since |-> <<>>, gap |-> <<>>,
     outage |-> <<>>]

\* tcp_check: the state file it leaves and what it did.  w1 and w2 are the
\* results of its first and second write_failure_count, a of the alert.  An
\* alert call that raises ends the round: "KeyError" from the environment
\* lookup of line 65 (alert "raised": nothing was tried), anything else under
\* the outcome that raised it.
tcp_check(f, probes, socket, samples, snap_data, w1, w2, a) ==
    LET p == probe_servers(probes, 1, [attempts |-> 0, order |-> <<>>,
                                       nic_down |-> FALSE, raised |-> ""])
        r0 == [NoRound EXCEPT !.ran = TRUE, !.probes = probes,
                              !.targets = Len(probes),
                              !.attempts = p.attempts, !.order = p.order,
                              !.nic_down = p.nic_down]
        prior == read_failure_count(f)
        r1 == [r0 EXCEPT !.read = f.kind, !.prior = prior, !.failure_count = prior]
    IN  IF p.raised # ""
        THEN [file |-> f, log |-> [r0 EXCEPT !.raised = p.raised]]
        ELSE IF p.nic_down
        THEN LET fc == prior + 1
                 f1 == write_failure_count(f, fc, w1)
                 r2 == [r1 EXCEPT !.failure_count = fc, !.written = <<fc>>,
                                  !.write_results = <<w1>>]
             IN  IF threshold_reached(count_after_write(fc, w1 = "ok"), samples)
                 THEN IF have_transport(socket)
                      THEN LET s == send_nic_down_alert(snap_data, a)
                           IN  IF s.raised
                               THEN [file |-> f1,
                                     log |-> [r2 EXCEPT !.alerts = 1,
                                                        !.alert = IF snap_data THEN a
                                                                  ELSE "raised",
                                                        !.raised = IF snap_data THEN "Exception"
                                                                   ELSE "KeyError"]]
                               ELSE [file |-> write_failure_count(f1, count_after_alert(fc), w2),
                                     log |-> [r2 EXCEPT !.alerts = 1, !.alert = a,
                                                        !.confirmed = s.confirmed,
                                                        !.reset = TRUE,
                                                        !.written = <<fc, count_after_alert(fc)>>,
                                                        !.write_results = <<w1, w2>>]]
                      ELSE [file |-> f1, log |-> [r2 EXCEPT !.no_transport = TRUE]]
                 ELSE [file |-> f1, log |-> r2]
        ELSE IF reset_on_success(prior)
        THEN [file |-> write_failure_count(f, 0, w1),
              log |-> [r1 EXCEPT !.written = <<0>>, !.write_results = <<w1>>]]
        ELSE [file |-> f, log |-> r1]

\* The rounds of one monitor follow each other: what a round adds to the
\* history of the rounds before it.
\*   since   <<>> until an alert has been sent; then <<n, w>>: n failed rounds
\*           were run after the last round that sent an alert (counted up to
\*           MaxSamples), and w says that every write of the state file since
\*           that alert, its reset included, succeeded
\*   gap     in a round that sends an alert, the `since` of the rounds before
\*           with this round counted in; <<>> for the first alert
\* An alert is sent when send_nic_down_alert is called and gets to its try.
after_round(prev, log) ==
    LET failed == log.nic_down /\ log.raised # "ValueError"
        sent == log.alerts = 1 /\ log.raised = ""
        writes_ok == \A i \in 1..Len(log.write_results) : log.write_results[i] = "ok"
        more(n) == IF n < MaxSamples THEN n + 1 ELSE n
    IN  IF sent
        THEN [log EXCEPT !.gap = IF prev.since = <<>> THEN <<>>
                                 ELSE <<more(prev.since[1]), prev.since[2]>>,
                         !.since = <<0, log.write_results[2] = "ok">>]
        ELSE IF prev.since = <<>> THEN log
        ELSE [log EXCEPT !.since = <<IF failed THEN more(prev.since[1])
                                     ELSE prev.since[1],
                                     prev.since[2] /\ writes_ok>>]

\* __main__, lines 158-169: `servers` is declared with nargs="+", so
\* parse_args() itself rejects a command line without servers (argparse prints
\* its usage and ends the process with status 2).
parse_args_error(servers) == Len(servers) = 0

\* __main__: one run of the script and the status the process ends with.  An
\* exception that leaves tcp_check is caught by nobody: the interpreter prints
\* the traceback and ends with status 1.
main(f, servers, socket, samples, snap_data, w1, w2, a) ==
    IF parse_args_error(servers)
    THEN [file |-> f, log |-> [NoRound EXCEPT !.exit = <<2>>]]
    ELSE IF Len(servers) = 0
    THEN [file |-> f, log |-> [NoRound EXCEPT !.exit = <<1>>]]
    ELSE LET r == tcp_check(f, servers, socket, samples, snap_data, w1, w2, a)
         IN  [file |-> r.file,
              log |-> [r.log EXCEPT !.exit = IF r.log.raised # "" THEN <<1>> ELSE <<0>>]]

RECURSIVE SeqsUpTo(_, _)
SeqsUpTo(S, n) ==
    IF n = 0 THEN {<<>>}
    ELSE LET shorter == SeqsUpTo(S, n - 1)
         IN  shorter \cup {Append(q, x) : q \in {t \in shorter : Len(t) = n - 1}, x \in S}
ProbeLists == SeqsUpTo(ProbeResults, MaxTargets)

\* The servers a monitor is started with: each is an address host:port or a
\* string that lines 116-117 cannot take apart.
WellFormed == "10.0.0.1:8301"
Malformed == "not-an-address"
ServerArgs == SeqsUpTo({WellFormed, Malformed}, MaxTargets)

\* What probing these servers can give in one round: a malformed one is
\* malformed in every round, the others are reachable or not.
ProbesOf(servers) ==
    {p \in ProbeLists :
        /\ Len(p) = Len(servers)
        /\ \A i \in 1..Len(p) : (p[i] = "malformed") <=> (servers[i] = Malformed)}

\* A monitor is started with its servers, options and environment, which stay
\* the same from round to round; the state file does not exist yet.
MonitorInit ==
    /\ state_file = Absent
    /\ args_monitoring_samples \in 1..MaxSamples
    /\ args_socket_path \in SocketPaths
    /\ snap_data_set \in BOOLEAN
    /\ args_servers \in ServerArgs
    /\ round = NoRound
    /\ bind_address = "10.10.0.10"
    /\ datacenter = ""
    /\ gossip_endpoints = <<>>
    /\ healthcheck_endpoints = <<>>
    /\ is_ready = FALSE
    /\ unix_socket_filepath = ""
    /\ serf_lan_port = 8301
    /\ enable_health_check = TRUE
    /\ snap_present = FALSE
    /\ config_file = <<>>
    /\ script_exists = FALSE
    /\ unit_status = MaintenanceInitial
    /\ last = <<>>
    /\ b_in = <<>>
    /\ b_out = <<>>
    /\ instances = <<>>
    /\ files = <<>>
    /\ a_in = <<>>
    /\ a_out = <<>>

\* One call of tcp_check.  The results of
\* the writes and of the alert are drawn only for the calls the round makes
\* (which calls it makes does not depend on their results).
check_round ==
    /\ read_failure_count(state_file) <= MaxCount
    /\ \E probes \in ProbesOf(args_servers) :
        \E calls \in {tcp_check(state_file, probes, args_socket_path,
                                 args_monitoring_samples, snap_data_set,
                                 "ok", "ok", "ok").log} :
            \E w1 \in IF Len(calls.written) >= 1 THEN StateWrites ELSE {"ok"},
               w2 \in IF Len(calls.written) >= 2 THEN StateWrites ELSE {"ok"},
               a \in IF calls.alerts = 1 /\ calls.raised = "" THEN AlertOutcomes ELSE {"ok"} :
                \E r \in {tcp_check(state_file, probes, args_socket_path,
                                     args_monitoring_samples, snap_data_set, w1, w2, a)} :
                    /\ state_file' = r.file
                    /\ round' = after_round(round, r.log)
    /\ UNCHANGED <<args_servers, args_monitoring_samples, args_socket_path,
                   snap_data_set, charm_vars, build_vars, pair_vars, alert_vars>>

\* One run of the script as the agent's check command.
script_run ==
    /\ read_failure_count(state_file) <= MaxCount
    /\ \E probes \in ProbesOf(args_servers) :
        \E calls \in {tcp_check(state_file, probes, args_socket_path,
                                 args_monitoring_samples, snap_data_set,
                                 "ok", "ok", "ok").log} :
            \E w1 \in IF Len(calls.written) >= 1 THEN StateWrites ELSE {"ok"},
               w2 \in IF Len(calls.written) >= 2 THEN StateWrites ELSE {"ok"},
               a \in IF calls.alerts = 1 /\ calls.raised = "" THEN AlertOutcomes ELSE {"ok"} :
                \E r \in {main(state_file, probes, args_socket_path,
                                args_monitoring_samples, snap_data_set, w1, w2, a)} :
                    /\ state_file' = r.file
                    /\ round' = r.log
    /\ UNCHANGED <<args_servers, args_monitoring_samples, args_socket_path,
                   snap_data_set, charm_vars, build_vars, pair_vars, alert_vars>>

MonitorNext == check_round

MonitorSpec == MonitorInit /\ [][MonitorNext]_vars

\* A continuous outage: the rounds of one monitor when in every round some
\* target is unreachable.  What a round adds to the history of the outage:
\*   n           the rounds of the outage so far (counted up to MaxSamples)
\*   phase       the number of the round modulo monitoring_samples, written
\*               1..monitoring_samples: rounds N, 2N, 3N, ... have phase N
\*   writes_ok   every write of the state file so far succeeded
\*   writes_failed   every write of the state file so far failed
\*   alerted     some round so far sent an alert
\*   second      this round sends an alert and an earlier round sent one
after_outage_round(prev, log, samples) ==
    LET h == IF prev.outage = <<>>
             THEN [n |-> 0, phase |-> 0, writes_ok |-> TRUE,
                   writes_failed |-> TRUE, alerted |-> FALSE, second |-> FALSE]
             ELSE prev.outage
        sent == log.alerts = 1 /\ log.raised = ""
    IN  [log EXCEPT !.outage =
            [n |-> IF h.n < MaxSamples THEN h.n + 1 ELSE h.n,
             phase |-> (h.phase % samples) + 1,
             writes_ok |-> h.writes_ok
                 /\ \A i \in 1..Len(log.write_results) : log.write_results[i] = "ok",
             writes_failed |-> h.writes_failed
                 /\ \A i \in 1..Len(log.write_results) : log.write_results[i] # "ok",
             alerted |-> h.alerted \/ sent,
             second |-> h.alerted /\ sent]]

\* The outage starts with a count of 0 (no state file, or one that holds 0), a
\* socket path and servers that are all well-formed.
OutageInit ==
    /\ state_file \in {Absent, Count(0)}
    /\ args_monitoring_samples \in 1..MaxSamples
    /\ args_socket_path \in {p \in SocketPaths : Truthy(p)}
    /\ snap_data_set \in BOOLEAN
    /\ args_servers \in {q \in ServerArgs :
                            Len(q) > 0 /\ \A i \in 1..Len(q) : q[i] = WellFormed}
    /\ round = NoRound
    /\ bind_address = "10.10.0.10"
    /\ datacenter = ""
    /\ gossip_endpoints = <<>>
    /\ healthcheck_endpoints = <<>>
    /\ is_ready = FALSE
    /\ unix_socket_filepath = ""
    /\ serf_lan_port = 8301
    /\ enable_health_check = TRUE
    /\ snap_present = FALSE
    /\ config_file = <<>>
    /\ script_exists = FALSE
    /\ unit_status = MaintenanceInitial
    /\ last = <<>>
    /\ b_in = <<>>
    /\ b_out = <<>>
    /\ instances = <<>>
    /\ files = <<>>
    /\ a_in = <<>>
    /\ a_out = <<>>

\* One call of tcp_check during the outage: some target is unreachable.
outage_round ==
    /\ read_failure_count(state_file) <= MaxCount
    /\ \E probes \in {p \in ProbesOf(args_servers) :
                         \E i \in 1..Len(p) : p[i] = "unreachable"} :
        \E calls \in {tcp_check(state_file, probes, args_socket_path,
                                 args_monitoring_samples, snap_data_set,
                                 "ok", "ok", "ok").log} :
            \E w1 \in IF Len(calls.written) >= 1 THEN StateWrites ELSE {"ok"},
               w2 \in IF Len(calls.written) >= 2 THEN StateWrites ELSE {"ok"},
               a \in IF calls.alerts = 1 /\ calls.raised = "" THEN AlertOutcomes ELSE {"ok"} :
                \E r \in {tcp_check(state_file, probes, args_socket_path,
                                     args_monitoring_samples, snap_data_set, w1, w2, a)} :
                    /\ state_file' = r.file
                    /\ round' = after_outage_round(round, r.log, args_monitoring_samples)
    /\ UNCHANGED <<args_servers, args_monitoring_samples, args_socket_path,
                   snap_data_set, charm_vars, build_vars, pair_vars, alert_vars>>

OutageNext == outage_round

OutageSpec == OutageInit /\ [][OutageNext]_vars

\* One call of tcp_check during the outage, the state file writable: every
\* write_failure_count succeeds.
writable_outage_round ==
    /\ read_failure_count(state_file) <= MaxCount
    /\ \E probes \in {p \in ProbesOf(args_servers) :
                         \E i \in 1..Len(p) : p[i] = "unreachable"} :
        \E calls \in {tcp_check(state_file, probes, args_socket_path,
                                 args_monitoring_samples, snap_data_set,
                                 "ok", "ok", "ok").log} :
            \E a \in IF calls.alerts = 1 /\ calls.raised = "" THEN AlertOutcomes ELSE {"ok"} :
                \E r \in {tcp_check(state_file, probes, args_socket_path,
                                     args_monitoring_samples, snap_data_set,
                                     "ok", "ok", a)} :
                    /\ state_file' = r.file
                    /\ round' = after_outage_round(round, r.log, args_monitoring_samples)
    /\ UNCHANGED <<args_servers, args_monitoring_samples, args_socket_path,
                   snap_data_set, charm_vars, build_vars, pair_vars, alert_vars>>

WritableOutageNext == writable_outage_round

\* The agent runs the check at every interval for as long as it runs.
OutageLive ==
    OutageInit /\ [][WritableOutageNext]_vars /\ WF_vars(writable_outage_round)

\* Two monitors side by side, one call of tcp_check after the other in each,
\* the statements of the two calls interleaved in any order.
\*
\* tcp_check, lines 108-111: without a state_file argument (the script passes
\* none) the path is SNAP_DATA, or /tmp when the variable is not set, joined
\* with the file name.  "" stands for SNAP_DATA not set.
SnapDataDirs == {"", "/var/snap/consul-client_a/current", "/var/snap/consul-client_b/current"}

\* Mutation of state_file_path: the environment is not looked at.
state_file_path_fixed(snap_data) == <<"/tmp", "tcp_health_check_state.json">>

state_file_path(snap_data) ==
    <<IF snap_data = "" THEN "/tmp" ELSE snap_data, "tcp_health_check_state.json">>

StatePaths == {state_file_path(d) : d \in SnapDataDirs} \cup {state_file_path_fixed("")}

\* A monitor between two calls of tcp_check.
Idle(snap_data) ==
    [snap_data |-> snap_data, pc |-> "idle", ran |-> FALSE, begin |-> Absent,
     probe |-> "ok", nic_down |-> FALSE, prior |-> 0, failure_count |-> 0,
     written |-> <<>>, alerts |-> 0, raised |-> ""]

\* The two monitors run under different SNAP_DATA.
PairInit ==
    /\ instances \in {<<Idle(d[1]), Idle(d[2])>> :
                          d \in {e \in SnapDataDirs \X SnapDataDirs : e[1] # e[2]}}
    /\ files = [p \in StatePaths |-> Absent]
    /\ state_file = Absent
    /\ args_monitoring_samples \in 1..MaxSamples
    /\ args_socket_path \in {p \in SocketPaths : Truthy(p)}
    /\ snap_data_set = TRUE
    /\ args_servers = <<WellFormed>>
    /\ round = NoRound
    /\ bind_address = "10.10.0.10"
    /\ datacenter = ""
    /\ gossip_endpoints = <<>>
    /\ healthcheck_endpoints = <<>>
    /\ is_ready = FALSE
    /\ unix_socket_filepath = ""
    /\ serf_lan_port = 8301
    /\ enable_health_check = TRUE
    /\ snap_present = FALSE
    /\ config_file = <<>>
    /\ script_exists = FALSE
    /\ unit_status = MaintenanceInitial
    /\ last = <<>>
    /\ b_in = <<>>
    /\ b_out = <<>>
    /\ a_in = <<>>
    /\ a_out = <<>>

PairUnchanged ==
    UNCHANGED <<state_file, args_servers, args_monitoring_samples, args_socket_path,
                snap_data_set, round, charm_vars, build_vars, alert_vars>>

\* lines 113-124: a call starts and probes its server.  `begin` keeps the
\* state file as the call found it.
probe_step(i) ==
    /\ instances[i].pc = "idle"
    /\ read_failure_count(files[state_file_path(instances[i].snap_data)]) <= MaxCount
    /\ \E result \in {"ok", "unreachable"} :
        instances' = [instances EXCEPT ![i] =
            [Idle(instances[i].snap_data) EXCEPT
                !.pc = "probed", !.ran = TRUE,
                !.begin = files[state_file_path(instances[i].snap_data)],
                !.probe = result, !.nic_down = result = "unreachable"]]
    /\ UNCHANGED files
    /\ PairUnchanged

\* line 127: failure_count = read_failure_count(state_file); lines 129, 148-154
read_step(i) ==
    /\ instances[i].pc = "probed"
    /\ read_failure_count(files[state_file_path(instances[i].snap_data)]) <= MaxCount
    /\ LET n == read_failure_count(files[state_file_path(instances[i].snap_data)])
       IN  instances' = [instances EXCEPT ![i] =
               [@ EXCEPT !.prior = n, !.failure_count = n,
                         !.pc = IF instances[i].nic_down THEN "failed"
                                ELSE IF reset_on_success(n) THEN "reset"
                                ELSE "idle"]]
    /\ UNCHANGED files
    /\ PairUnchanged

\* lines 130-137, 142-147: the count is incremented and written
write_step(i) ==
    /\ instances[i].pc = "failed"
    /\ LET fc == instances[i].failure_count + 1
           path == state_file_path(instances[i].snap_data)
       IN  /\ files' = [files EXCEPT ![path] = write_failure_count(@, fc, "ok")]
           /\ instances' = [instances EXCEPT ![i] =
                  [@ EXCEPT !.failure_count = fc, !.written = <<fc>>,
                            !.pc = IF threshold_reached(count_after_write(fc, TRUE),
                                                        args_monitoring_samples)
                                      /\ have_transport(args_socket_path)
                                   THEN "alert" ELSE "idle"]]
    /\ PairUnchanged

\* lines 138-139: send_nic_down_alert(socket_path)
alert_step(i) ==
    /\ instances[i].pc = "alert"
    /\ \E a \in AlertOutcomes :
        LET sent == send_nic_down_alert(instances[i].snap_data # "", a)
        IN  instances' = [instances EXCEPT ![i] =
                [@ EXCEPT !.alerts = 1,
                          !.raised = IF sent.raised THEN "KeyError" ELSE "",
                          !.pc = IF sent.raised THEN "idle" ELSE "reset"]]
    /\ UNCHANGED files
    /\ PairUnchanged

\* lines 141 and 152: write_failure_count(state_file, 0)
reset_step(i) ==
    /\ instances[i].pc = "reset"
    /\ LET path == state_file_path(instances[i].snap_data)
           n == IF instances[i].nic_down
                THEN count_after_alert(instances[i].failure_count) ELSE 0
       IN  /\ files' = [files EXCEPT ![path] = write_failure_count(@, n, "ok")]
           /\ instances' = [instances EXCEPT ![i] =
                  [@ EXCEPT !.written = Append(@, n), !.pc = "idle"]]
    /\ PairUnchanged

PairNext ==
    \E i \in 1..2 :
        \/ probe_step(i)
        \/ read_step(i)
        \/ write_step(i)
        \/ alert_step(i)
        \/ reset_step(i)

PairSpec == PairInit /\ [][PairNext]_vars

\* send_nic_down_alert applied on its own: the environment, the socket path,
\* the clock and what the listener does.
Times == {1234567890, 1700000000}
RelativeSocketPaths == {"data/socket.sock", "socket.sock"}
AlertInputs ==
    [snap_data : SnapDataDirs, socket_path : RelativeSocketPaths,
     now : Times, a : AlertOutcomes]

AlertInit ==
    /\ a_in \in AlertInputs
    /\ a_out = <<>>
    /\ instances = <<>>
    /\ files = <<>>
    /\ state_file = Absent
    /\ args_monitoring_samples = 3
    /\ args_socket_path = ""
    /\ snap_data_set = TRUE
    /\ args_servers = <<>>
    /\ round = <<>>
    /\ bind_address = "10.10.0.10"
    /\ datacenter = ""
    /\ gossip_endpoints = <<>>
    /\ healthcheck_endpoints = <<>>
    /\ is_ready = FALSE
    /\ unix_socket_filepath = ""
    /\ serf_lan_port = 8301
    /\ enable_health_check = TRUE
    /\ snap_present = FALSE
    /\ config_file = <<>>
    /\ script_exists = FALSE
    /\ unit_status = MaintenanceInitial
    /\ last = <<>>
    /\ b_in = <<>>
    /\ b_out = <<>>

\* send_nic_down_alert(socket_path)
apply_alert ==
    /\ a_out = <<>>
    /\ a_out' = <<[calls |-> alert_exchange(a_in.snap_data, a_in.socket_path,
                                           a_in.now, a_in.a),
                   result |-> send_nic_down_alert(a_in.snap_data # "", a_in.a)]>>
    /\ UNCHANGED <<a_in, instances, files, state_file, args_servers,
                   args_monitoring_samples, args_socket_path, snap_data_set, round,
                   charm_vars, build_vars>>

next_alert_input ==
    /\ a_out # <<>>
    /\ a_in' \in AlertInputs
    /\ a_out' = <<>>
    /\ UNCHANGED <<instances, files, state_file, args_servers,
                   args_monitoring_samples, args_socket_path, snap_data_set, round,
                   charm_vars, build_vars>>

AlertNext == apply_alert \/ next_alert_input

AlertSpec == AlertInit /\ [][AlertNext]_vars

\* The monitor as the agent runs it: every round is a run of the script.
MainNext == script_run

MainSpec == MonitorInit /\ [][MainNext]_vars

(***************************************************************************)
(* Properties.  Those about the charm are stated on the record of the last *)
(* handler run while it is fresh, i.e. while the relation data and config  *)
(* are still those the handler read; those about the monitor on the record *)
(* of the last round.                                                      *)
(***************************************************************************)
InSeq(x, q) == \E i \in 1..Len(q) : q[i] = x

\* The last handler run was a reconciliation cycle on the current data.
Cycle == last.fresh /\ last.configured

ClusterDataMissing == ~Truthy(datacenter) \/ ~NonEmpty(gossip_endpoints)

\* The document of the text on disk (the text is not empty).
WrittenDoc == config_file.text.chars[1]

\* The cycle wrote the configuration, so the file holds what it built.
WroteConfig == Cycle /\ last.writes = 1 /\ last.changed

\* C1: in a cycle with datacenter and join addresses present, if the text on
\* disk equals the serialization of the configuration just built, the cycle
\* reports changed = false, writes nothing and restarts nothing.
C1_EqualTextNoWriteNoRestart ==
    (Cycle /\ last.built /\ last.text_equal)
        => (~last.changed /\ last.writes = 0 /\ last.restarts = 0)

\* C2: a cycle that follows a cycle which built and persisted the document,
\* with nothing the handlers read changed in between, reports changed = false
\* and neither writes the configuration nor restarts the agent.
C2_RepeatCycleUnchanged ==
    (Cycle /\ last.repeat /\ last.built)
        => (~last.changed /\ last.writes = 0 /\ last.restarts = 0)

\* A failed round that ran to its end or up to the alert: some target was
\* unreachable and no target was malformed.
FailedRound == round.ran /\ round.nic_down /\ round.raised # "ValueError"

\* Every write_failure_count of the round succeeded.
WritesOk == \A i \in 1..Len(round.write_results) : round.write_results[i] = "ok"

\* C3: with a socket path configured, a failed round calls the alert
\* transport (once) if and only if the incremented count is >=
\* monitoring_samples.  With monitoring_samples = 3, the state file writable
\* and SNAP_DATA set, a failed round that reads 0 leaves 1 and one that reads 1
\* leaves 2, both without an alert; one that reads 2 sends exactly one alert
\* and leaves 0.
C3_Debounce ==
    (FailedRound /\ Truthy(args_socket_path))
        => /\ round.alerts \in {0, 1}
           /\ round.alerts = 1 <=> round.failure_count >= args_monitoring_samples
           /\ round.failure_count = round.prior + 1
           /\ (args_monitoring_samples = 3 /\ WritesOk /\ snap_data_set)
                => /\ round.prior = 0 => (state_file = Count(1) /\ round.alerts = 0)
                   /\ round.prior = 1 => (state_file = Count(2) /\ round.alerts = 0)
                   /\ round.prior = 2 => (state_file = Count(0) /\ round.alerts = 1)

C3_Witness ==
    /\ FailedRound /\ Truthy(args_socket_path)
    /\ args_monitoring_samples = 3 /\ WritesOk /\ snap_data_set
    /\ round.prior = 2 /\ round.alerts = 1 /\ state_file = Count(0)

\* C4: when the threshold is reached and the alert send is not confirmed by
\* the transport (connect, send, receive or parsing fails, or the response
\* says "error"), the round does not reset the counter: its only write is the
\* incremented count.
C4_NoResetAfterFailedSend ==
    (round.ran /\ round.alerts = 1 /\ ~round.confirmed)
        => (~round.reset /\ round.written = <<round.failure_count>>)

\* C5: after a cycle in which the datacenter is absent or the join-address
\* list is absent or empty, the unit's status is Blocked "Integration
\* consul-cluster missing".
C5_BlockedWhenClusterDataMissing ==
    (Cycle /\ ClusterDataMissing) => unit_status = BlockedMissing

\* C6: a cycle in which the datacenter is absent or the join-address list is
\* absent or empty builds nothing: it does not write the configuration, does
\* not place the probe artifact and does not restart the agent.
C6_NoEffectsWhenClusterDataMissing ==
    (Cycle /\ ClusterDataMissing)
        => (~last.built /\ last.writes = 0 /\ last.copies = 0 /\ last.restarts = 0)

\* Only one of the two mandatory keys is missing, and the notify socket is
\* there, so a build would have placed the artifact.
C6_Witness ==
    /\ Cycle /\ Truthy(datacenter) /\ ~NonEmpty(gossip_endpoints)
    /\ is_ready /\ Truthy(unix_socket_filepath)
    /\ last.writes = 0 /\ last.copies = 0 /\ last.restarts = 0

\* C7: while the option enable-health-check is false, a configuration the
\* charm writes has no services and does not set enable_script_checks.
C7_NoServiceWhenToggleOff ==
    (WroteConfig /\ ~enable_health_check)
        => /\ "services" \notin DOMAIN WrittenDoc
           /\ "enable_script_checks" \notin DOMAIN WrittenDoc

\* C8: when dedicated health-check addresses are supplied and the written
\* configuration has the health-check service, its argument vector holds every
\* health-check address and none of the join addresses.
C8_ArgsUseHealthcheckAddresses ==
    (WroteConfig /\ NonEmpty(healthcheck_endpoints) /\ "services" \in DOMAIN WrittenDoc)
        => LET args == WrittenDoc.services[1].check.args
           IN  /\ \A i \in 1..Len(healthcheck_endpoints) :
                     InSeq(healthcheck_endpoints[i], args)
               /\ \A i \in 1..Len(gossip_endpoints) :
                     ~InSeq(gossip_endpoints[i], args)

\* build() returned a document for the arguments b_in.
Built == b_out # <<>> /\ ~b_out[1].raised
BuiltDoc == b_out[1].doc[1]

\* C9: the built document has `services` (exactly one service, named
\* tcp-health-check) and enable_script_checks = true if and only if tcp_check
\* is true and the socket path is not empty; otherwise it has neither key.
C9_ServicesIffBranch ==
    Built =>
        IF b_in.tcp_check /\ b_in.socket # ""
        THEN /\ "services" \in DOMAIN BuiltDoc
             /\ "enable_script_checks" \in DOMAIN BuiltDoc
             /\ BuiltDoc.enable_script_checks = TRUE
             /\ Len(BuiltDoc.services) = 1
             /\ BuiltDoc.services[1].name = "tcp-health-check"
        ELSE /\ "services" \notin DOMAIN BuiltDoc
             /\ "enable_script_checks" \notin DOMAIN BuiltDoc

C9_Witness ==
    /\ Built /\ b_in.tcp_check /\ b_in.socket # "" /\ Len(b_in.servers) = 2
    /\ Len(BuiltDoc.services) = 1

\* C10: a round in which every target is reachable (zero targets included)
\* calls no alert; if it read a count > 0 its one write is failure_count = 0,
\* and if it read 0 it does not write the state file.
C10_AllReachableRound ==
    (round.ran /\ round.raised = "" /\ ~round.nic_down)
        => /\ round.alerts = 0
           /\ round.attempts = round.targets
           /\ round.prior > 0 => /\ round.written = <<0>>
                                 /\ WritesOk => state_file = Count(0)
           /\ round.prior = 0 => round.written = <<>>

C10_Witness ==
    /\ round.ran /\ round.raised = "" /\ ~round.nic_down
    /\ round.probes = <<"ok", "ok">> /\ round.prior > 0
    /\ round.written = <<0>> /\ state_file = Count(0)

\* The targets the round was given: some unreachable, some malformed.
HasUnreachable == \E i \in 1..Len(round.probes) : round.probes[i] = "unreachable"
HasMalformed == \E i \in 1..Len(round.probes) : round.probes[i] = "malformed"

\* C11: a round with at least one unreachable target (and no malformed one),
\* wherever it stands in the list and however many other targets are
\* reachable, is a failed round: every target is probed and the count read is
\* incremented.  With monitoring_samples = 1 and a socket path such a round
\* calls the alert transport exactly once, and (SNAP_DATA set, the state file
\* writable) the persisted failure_count ends at 0.
C11_AnyUnreachableFailsRound ==
    (round.ran /\ HasUnreachable /\ ~HasMalformed)
        => /\ round.nic_down
           /\ round.attempts = Len(round.probes)
           /\ round.failure_count = round.prior + 1
           /\ (args_monitoring_samples = 1 /\ Truthy(args_socket_path))
                => /\ round.alerts = 1
                   /\ (snap_data_set /\ WritesOk) => state_file = Count(0)

\* The unreachable target is the first of two and the second is reachable.
C11_Witness ==
    /\ round.ran /\ round.probes = <<"unreachable", "ok">>
    /\ args_monitoring_samples = 1 /\ Truthy(args_socket_path)
    /\ snap_data_set /\ WritesOk
    /\ round.alerts = 1 /\ state_file = Count(0)

\* C12: a failed round that reaches the threshold without a socket path ends
\* normally, records that no transport is configured, calls no alert and does
\* not reset: its only write is the incremented count, which (the state file
\* writable) is what stays persisted, one more than the round read.
C12_NoTransportNoReset ==
    (FailedRound /\ ~Truthy(args_socket_path)
                 /\ round.failure_count >= args_monitoring_samples)
        => /\ round.raised = ""
           /\ round.no_transport
           /\ round.alerts = 0
           /\ ~round.reset
           /\ round.failure_count = round.prior + 1
           /\ round.written = <<round.failure_count>>
           /\ WritesOk => state_file = Count(round.prior + 1)

\* A further failed round, after the one that reached the threshold.
C12_Witness ==
    /\ FailedRound /\ ~Truthy(args_socket_path)
    /\ args_monitoring_samples = 2 /\ round.prior = 3
    /\ round.no_transport /\ state_file = Count(4)

\* C13: a round whose target list has a malformed address raises ValueError,
\* wherever the malformed entry stands and whatever the other targets are: it
\* calls no alert, writes nothing and leaves the state file as it was.
C13_MalformedAborts ==
    [][(round'.ran /\ \E i \in 1..Len(round'.probes) : round'.probes[i] = "malformed")
         => /\ round'.raised = "ValueError"
            /\ round'.alerts = 0
            /\ round'.written = <<>>
            /\ state_file' = state_file]_vars

\* The malformed entry comes after an unreachable target, in a round that
\* would otherwise have reached the threshold.
C13_Witness ==
    /\ round.ran /\ round.probes = <<"unreachable", "malformed">>
    /\ round.raised = "ValueError"
    /\ args_monitoring_samples = 1 /\ Truthy(args_socket_path)
    /\ round.alerts = 0 /\ state_file = Absent

\* C14: whatever the outcome of connect, send, receive and parsing of the
\* response (a socket error, another exception, a response that is not JSON,
\* a response with status "error"), send_nic_down_alert returns to tcp_check,
\* which goes on to its next statement.
C14_AlertNeverRaises ==
    (round.ran /\ round.alerts = 1 /\ round.alert \in AlertOutcomes)
        => (round.raised = "" /\ round.reset)

C14_Witness ==
    /\ round.ran /\ round.alerts = 1 /\ round.alert = "bad_json"
    /\ round.raised = "" /\ round.reset

\* C15: a cycle whose configuration changed and whose restart of the agent
\* failed ends with status Blocked "Failed to restart <snap>": the restart was
\* attempted exactly once and the status is not Active.
C15_RestartFailureBlocks ==
    (Cycle /\ last.changed /\ last.restart_failed)
        => /\ unit_status = BlockedRestart
           /\ unit_status # Active
           /\ last.restarts = 1

C15_Witness ==
    /\ Cycle /\ last.changed /\ last.restart_failed
    /\ last.writes = 1 /\ last.restarts = 1
    /\ unit_status = BlockedRestart

\* C16: a cycle with datacenter and join addresses present that finds no
\* configuration file (and in which neither the copy nor the write raises)
\* compares the empty string, which differs from what it built: it reports
\* changed, writes the new configuration exactly once, so that the file holds
\* the serialization of the document built, and restarts the agent exactly
\* once.
C16_AbsentFileIsWritten ==
    (Cycle /\ last.built /\ last.not_found /\ ~last.raised)
        => /\ ~ClusterDataMissing
           /\ ~last.text_equal
           /\ last.changed
           /\ last.writes = 1
           /\ last.restarts = 1
           /\ config_file.exists
           /\ config_file.text # EmptyStr
           /\ WrittenDoc.retry_join = gossip_endpoints

C16_Witness ==
    /\ Cycle /\ last.built /\ last.not_found /\ ~last.raised
    /\ last.changed /\ last.writes = 1 /\ last.restarts = 1
    /\ ~last.restart_failed /\ unit_status = Active
    /\ config_file.exists

\* C17: when the relation supplies no health-check addresses (the key absent
\* or its list empty) and the written configuration has the health-check
\* service, every join address is in the service's argument vector.
C17_ArgsFallBackToGossip ==
    (WroteConfig /\ ~NonEmpty(healthcheck_endpoints) /\ "services" \in DOMAIN WrittenDoc)
        => LET args == WrittenDoc.services[1].check.args
           IN  \A i \in 1..Len(gossip_endpoints) : InSeq(gossip_endpoints[i], args)

C17_Witness ==
    /\ WroteConfig /\ ~NonEmpty(healthcheck_endpoints)
    /\ "services" \in DOMAIN WrittenDoc
    /\ Len(gossip_endpoints) = 2
    /\ InSeq(gossip_endpoints[2], WrittenDoc.services[1].check.args)

\* C18: when tcp_check is true and the socket path is not empty, the check's
\* argument vector is "python3", the path of the probe script, each server in
\* input order as an element of its own, and then "--socket-path" and the
\* socket path as the last two elements; the interval is "10s" and the
\* timeout "5s".
C18_ArgumentVector ==
    (Built /\ b_in.tcp_check /\ b_in.socket # "")
        => LET check == BuiltDoc.services[1].check
               args == check.args
               n == Len(b_in.servers)
           IN  /\ Len(args) = n + 4
               /\ args[1] = "python3"
               /\ args[2] = "/var/snap/consul-client_key/common/consul/data/tcp_health_check.py"
               /\ \A i \in 1..n : args[2 + i] = b_in.servers[i]
               /\ args[n + 3] = "--socket-path"
               /\ args[n + 4] = b_in.socket
               /\ check.interval = "10s"
               /\ check.timeout = "5s"

\* Two servers, given in an order that is not the sorted one.
C18_Witness ==
    /\ Built /\ b_in.tcp_check /\ b_in.socket # ""
    /\ b_in.servers = <<ServerUniverse[2], ServerUniverse[1]>>
    /\ BuiltDoc.services[1].check.args[3] = ServerUniverse[2]
    /\ BuiltDoc.services[1].check.args[4] = ServerUniverse[1]

\* C19: a run of the script ends with status 1 when no servers are given and
\* with status 0 in every other run.
C19_ExitCodes ==
    round.exit # <<>>
        => round.exit = IF round.probes = <<>> THEN <<1>> ELSE <<0>>

\* C20: the persisted failure_count is an integer >= 0 in every state; after
\* a round that found every target reachable, and after a round whose alert
\* the transport confirmed, it is 0 (the state file writable in that round).
C20_CountInvariant ==
    /\ state_file.kind = "count" => state_file.n \in Nat
    /\ read_failure_count(state_file) \in Nat
    /\ (round.ran /\ round.raised = "" /\ ~round.nic_down /\ WritesOk)
            => read_failure_count(state_file) = 0
    /\ (round.ran /\ round.confirmed /\ WritesOk) => state_file = Count(0)

\* An all-reachable round that cleared a count of 1, before any alert.
C20_Witness ==
    /\ round.ran /\ round.raised = "" /\ ~round.nic_down /\ WritesOk
    /\ Len(round.probes) = 2 /\ round.prior = 1
    /\ args_monitoring_samples = 2
    /\ state_file = Count(0)

\* The round sent an alert: send_nic_down_alert was called and got to its try.
SentAlert == round.ran /\ round.alerts = 1 /\ round.raised = ""

C22_UnreadableStateIsZero ==
    (round.ran /\ round.read \in {"absent", "garbage"})
        => /\ round.prior = 0
           /\ round.raised # "ValueError"
           /\ FailedRound
                => /\ round.failure_count = 1
                   /\ round.written[1] = 1
                   /\ (WritesOk /\ args_monitoring_samples > 1) => state_file = Count(1)
                   /\ (args_monitoring_samples = 1 /\ Truthy(args_socket_path))
                        => round.alerts = 1
           /\ ~round.nic_down => (round.written = <<>> /\ round.alerts = 0)

\* The file was left unreadable by an earlier failed write.
C22_Witness ==
    /\ FailedRound /\ round.read = "garbage"
    /\ args_monitoring_samples = 3 /\ WritesOk
    /\ state_file = Count(1)

\* C23: a failed round whose write of the incremented count fails goes on:
\* the count it compares with monitoring_samples is the one it read plus 1,
\* and with a socket path it calls the alert exactly when that count is >=
\* monitoring_samples.
C23_WriteFailureDoesNotAbort ==
    (FailedRound /\ round.write_results # <<>> /\ round.write_results[1] # "ok")
        => /\ round.failure_count = round.prior + 1
           /\ round.raised \in {"", "KeyError"}
           /\ Truthy(args_socket_path)
                => (round.alerts = 1 <=> round.failure_count >= args_monitoring_samples)
           /\ ~Truthy(args_socket_path)
                => (round.no_transport <=> round.failure_count >= args_monitoring_samples)

\* The write that fails is the one of the count that reaches the threshold.
C23_Witness ==
    /\ FailedRound /\ round.write_results[1] = "fail_open"
    /\ Truthy(args_socket_path) /\ args_monitoring_samples = 2
    /\ round.prior = 1 /\ round.alerts = 1 /\ round.raised = ""

\* What the operator sees of the unit: a handler that ends with an uncaught
\* exception fails its hook, and the unit is shown in error instead of with
\* the status the charm last set.
OperatorStatus == IF last.raised THEN "Error: hook failed" ELSE unit_status

C25_BlockedRecovery ==
    (Cycle /\ last.from_blocked /\ ~ClusterDataMissing
           /\ ~last.raised /\ ~last.restart_failed)
        => /\ last.built
           /\ last.writes = 1 /\ last.changed
           /\ config_file.exists /\ config_file.text # EmptyStr
           /\ WrittenDoc.datacenter = datacenter
           /\ WrittenDoc.retry_join = gossip_endpoints
           /\ last.restarts = 1
           /\ unit_status = Active

C25_Witness ==
    /\ Cycle /\ last.from_blocked /\ ~ClusterDataMissing
    /\ ~last.raised /\ ~last.restart_failed
    /\ last.writes = 1 /\ last.restarts = 1 /\ unit_status = Active
    /\ last.installs = 0

\* The notify relation is ready and has published its socket path.
SocketAvailable == is_ready /\ Truthy(unix_socket_filepath)

C27_Ports ==
    WroteConfig
        => LET ports == WrittenDoc.ports
           IN  /\ DOMAIN ports = {"dns", "http", "https", "grpc", "grpc_tls",
                                  "serf_lan", "serf_wan", "server"}
               /\ ports.serf_lan = serf_lan_port
               /\ ports.server = 8300
               /\ \A k \in {"dns", "http", "https", "grpc", "grpc_tls", "serf_wan"} :
                     ports[k] = -1

\* The option was changed from its initial 8301 and a later cycle wrote.
C27_Witness ==
    /\ WroteConfig /\ ~last.not_found
    /\ serf_lan_port = 9301
    /\ WrittenDoc.ports.serf_lan = 9301

\* C28: a cycle copies the probe artifact, once, exactly when it calls build()
\* with the socket available and the artifact not yet there: an artifact that
\* is there is left alone by every cycle, and a cycle with the socket
\* unavailable leaves the artifact as it was.  A cycle whose copy fails ends with the exception:
\* nothing is built, the configuration file is not written and the agent is
\* not restarted.
C28_ArtifactPlacement ==
    [][Cycle'
            => /\ last'.copies \in {0, 1}
               /\ script_exists => (script_exists' /\ last'.copies = 0)
               /\ last'.copies = 1
                    <=> (~script_exists /\ SocketAvailable' /\ ~ClusterDataMissing')
               /\ ~SocketAvailable' => script_exists' = script_exists
               /\ last'.copy_failed
                    => /\ last'.raised /\ ~last'.built
                       /\ ~script_exists'
                       /\ last'.writes = 0 /\ last'.restarts = 0
                       /\ config_file' = config_file
               /\ (last'.copies = 1 /\ ~last'.copy_failed) => script_exists']_vars

\* A cycle that could not place the artifact.
C28_Witness ==
    /\ Cycle /\ SocketAvailable /\ ~ClusterDataMissing
    /\ last.copy_failed /\ last.raised
    /\ ~script_exists /\ last.writes = 0 /\ last.restarts = 0

\* C29: retry_join of a written configuration is the list of join addresses
\* of the relation, element by element in the same order, with or without
\* dedicated health-check addresses and with or without the health-check
\* service.
C29_RetryJoinVerbatim ==
    WroteConfig
        => /\ Len(WrittenDoc.retry_join) = Len(gossip_endpoints)
           /\ \A i \in 1..Len(gossip_endpoints) :
                 WrittenDoc.retry_join[i] = gossip_endpoints[i]

\* Two join addresses, dedicated health-check addresses and the service.
C29_Witness ==
    /\ WroteConfig /\ NonEmpty(healthcheck_endpoints) /\ SocketAvailable
    /\ Len(gossip_endpoints) = 2
    /\ "services" \in DOMAIN WrittenDoc
    /\ WrittenDoc.retry_join = gossip_endpoints

\* The last handler run was the remove handler.
RemoveRun == last.disconnects = 1

\* C30: the remove handler disconnects the socket interface and then ensures
\* the snap Absent, in this order and also when the disconnect command fails;
\* the handler does not raise; a snap error of the removal leaves the unit
\* Blocked "Failed to remove <snap>", a removal without error leaves the snap
\* absent; no configuration is written and the agent is not restarted.
C30_Remove ==
    RemoveRun
        => /\ last.removal = <<"disconnect", "ensure_absent">>
           /\ ~last.raised
           /\ last.remove_failed => unit_status = BlockedRemove
           /\ ~last.remove_failed
                => (unit_status = MaintenanceUninstalling /\ ~snap_present)
           /\ last.writes = 0 /\ last.restarts = 0 /\ last.copies = 0
           /\ ~last.configured

\* The disconnect command failed and so did the removal of the snap.
C30_Witness ==
    /\ RemoveRun /\ last.disconnect_failed /\ last.remove_failed
    /\ last.removal = <<"disconnect", "ensure_absent">>
    /\ unit_status = BlockedRemove

\* C31: in a round whose targets are all well-formed, every target is probed
\* once, in the order of the list, whether or not earlier targets were found
\* unreachable: the number of connect attempts is the number of targets.
C31_AllTargetsProbed ==
    (round.ran /\ ~HasMalformed)
        => /\ round.attempts = round.targets
           /\ round.targets = Len(args_servers)
           /\ round.order = [i \in 1..round.targets |-> i]

\* The first of two targets is unreachable and the second is still probed.
C31_Witness ==
    /\ round.ran /\ round.probes = <<"unreachable", "unreachable">>
    /\ round.attempts = 2 /\ round.order = <<1, 2>>

\* C32: a socket-available event that finds the notify relation not ready
\* connects nothing, does not reconcile and leaves the status and the files
\* alone; one that finds it ready connects the interface "consul-socket" from
\* this snap to the notifier's snap and then reconciles, also when the connect
\* fails.
C32_SocketAvailable ==
    [][last'.socket_event
          => /\ ~is_ready'
                => /\ last'.connects = 0 /\ last'.steps = <<>>
                   /\ ~last'.configured
                   /\ last'.writes = 0 /\ last'.restarts = 0 /\ last'.copies = 0
                   /\ unit_status' = unit_status
                   /\ config_file' = config_file
                   /\ script_exists' = script_exists
             /\ is_ready'
                => /\ last'.connects = 1
                   /\ last'.steps = <<<<"connect", snap_name, notify_snap_name,
                                       "consul-socket">>, <<"_configure">>>>
                   /\ last'.configured]_vars

\* The connect failed and the reconciliation still wrote the configuration.
C32_Witness ==
    /\ last.socket_event /\ is_ready /\ last.connect_failed
    /\ last.configured /\ last.writes = 1

\* C33: a round that calls send_nic_down_alert while SNAP_DATA is not set
\* returns normally: nothing raises out of the alert send.
C33_AlertWithoutSnapData ==
    (round.ran /\ round.alerts = 1 /\ ~snap_data_set) => round.raised = ""

\* The last handler run tried to install the snap, failed, and went on to
\* _configure: a config-changed or upgrade event.
InstallFailedThenConfigured ==
    last.installs = 1 /\ ~snap_present /\ last.configured

\* C34: a config-changed or upgrade event whose install fails ends with status
\* Blocked "Failed to install snap <snap>" and without a restart of the agent.
C34_InstallFailureStaysBlocked ==
    InstallFailedThenConfigured
        => (unit_status = BlockedInstall /\ last.restarts = 0)

\* C35: in a continuous outage with a socket path and monitoring_samples >= 2,
\* once monitoring_samples failed rounds have been run an alert has been sent,
\* also when every write of the state file failed.
C35_AlertDespiteWriteFailures ==
    (round.ran /\ args_monitoring_samples >= 2 /\ snap_data_set
        /\ round.outage.n >= args_monitoring_samples
        /\ round.outage.writes_failed)
        => round.outage.alerted

\* C36: in a continuous outage that starts with a count of 0, with a socket
\* path, monitoring_samples = N and the state file written without failure
\* (SNAP_DATA set), a round sends an alert if and only if its number is a
\* multiple of N; as the rounds go on, an alert is sent again and again.
C36_AlertEveryN ==
    /\ []((round.ran /\ snap_data_set /\ round.outage.writes_ok)
            => (SentAlert <=> round.outage.phase = args_monitoring_samples))
    /\ []<>(\/ ~snap_data_set
            \/ (round.ran /\ ~round.outage.writes_ok)
            \/ SentAlert)

\* The alert of round 2N, with N = 3.
C36_Witness ==
    /\ SentAlert /\ snap_data_set /\ round.outage.writes_ok
    /\ args_monitoring_samples = 3 /\ round.outage.phase = 3
    /\ round.outage.second /\ state_file = Count(0)

\* C37: with a socket path and monitoring_samples = N, after every round that
\* returned and whose writes of the state file succeeded, the persisted
\* failure_count is in 0..N-1, whatever failed, successful and aborted rounds
\* came before.
C37_PersistedCountBelowThreshold ==
    (round.ran /\ round.raised = "" /\ Truthy(args_socket_path) /\ WritesOk)
        => /\ read_failure_count(state_file) \in 0..(args_monitoring_samples - 1)
           /\ state_file.kind = "count"
                => state_file.n \in 0..(args_monitoring_samples - 1)

\* A failed round that leaves the count one below the threshold.
C37_Witness ==
    /\ round.ran /\ round.raised = "" /\ round.nic_down /\ WritesOk
    /\ Truthy(args_socket_path) /\ args_monitoring_samples = 3
    /\ round.alerts = 0 /\ state_file = Count(2)

\* What the call of monitor i does when nothing else touches its state file.
Alone(i) ==
    tcp_check(instances[i].begin, <<instances[i].probe>>, args_socket_path,
              args_monitoring_samples, instances[i].snap_data # "", "ok", "ok", "ok")

\* C38: two monitors whose state files have distinct paths (their SNAP_DATA
\* differ), their calls of tcp_check interleaved statement by statement: the
\* count a call reads is the one its own monitor left, and between two calls
\* of a monitor its state file, what it wrote and whether it alerted are what
\* the call gives when run alone on its own state file.
C38_Independent ==
    instances[1].snap_data # instances[2].snap_data
        => \A i \in 1..2 :
              /\ instances[i].pc \notin {"idle", "probed"}
                    => instances[i].prior = read_failure_count(instances[i].begin)
              /\ (instances[i].pc = "idle" /\ instances[i].ran)
                    => /\ files[state_file_path(instances[i].snap_data)] = Alone(i).file
                       /\ instances[i].prior = Alone(i).log.prior
                       /\ instances[i].written = Alone(i).log.written
                       /\ instances[i].alerts = Alone(i).log.alerts
                       /\ instances[i].raised = Alone(i).log.raised

\* The first monitor has sent its alert while the second, with a count of its
\* own, stands between reading and writing.
C38_Witness ==
    /\ instances[1].snap_data # instances[2].snap_data
    /\ instances[1].pc = "idle" /\ instances[1].alerts = 1 /\ instances[1].raised = ""
    /\ instances[1].written = <<2, 0>>
    /\ instances[2].pc = "failed" /\ instances[2].prior = 1

\* The calls of the exchange that was run, by name.
CallNames == [i \in 1..Len(a_out[1].calls) |-> a_out[1].calls[i].call]
Exchanged == a_out # <<>> /\ a_in.snap_data # ""

\* C39: with SNAP_DATA set, the exchange is a beginning of socket(AF_UNIX,
\* SOCK_STREAM), connect to SNAP_DATA/socket_path, one sendall of the message,
\* one recv of 1024 bytes, json.loads, in this order; it ends at the call that
\* fails, so nothing is sent when connect fails; the message has version
\* "1.0", status "nic-down" and the time of the clock as timestamp; none of
\* the outcomes raises out of the function.
C39_AlertProtocol ==
    Exchanged
        => LET calls == a_out[1].calls
               full == <<"socket", "connect", "sendall", "recv", "json.loads">>
           IN  /\ Len(calls) \in 2..5
               /\ CallNames = SubSeq(full, 1, Len(calls))
               /\ calls[1].family = "AF_UNIX" /\ calls[1].type = "SOCK_STREAM"
               /\ calls[2].path = <<a_in.snap_data, a_in.socket_path>>
               /\ Len(calls) >= 3
                    => calls[3].data = <<[version |-> "1.0", timestamp |-> a_in.now,
                                          status |-> "nic-down"]>>
               /\ Len(calls) >= 4 => calls[4].bufsize = 1024
               /\ a_in.a = "connect_fail" <=> Len(calls) = 2
               /\ a_in.a \in {"ok", "error_status", "bad_json"} <=> Len(calls) = 5
               /\ a_out[1].result.sent <=> Len(calls) >= 4
               /\ ~a_out[1].result.raised

\* The listener answers: the whole exchange, under the second SNAP_DATA.
C39_Witness ==
    /\ Exchanged /\ a_in.a = "ok"
    /\ a_in.snap_data = "/var/snap/consul-client_b/current"
    /\ a_in.socket_path = "socket.sock"
    /\ Len(a_out[1].calls) = 5
    /\ a_out[1].calls[2].path = <<"/var/snap/consul-client_b/current", "socket.sock">>

\* C40: a handler that calls _ensure_snap_present while the snap is present
\* installs nothing, connects nothing and gets True; while the snap is absent
\* it installs, and either the snap is then present, the interface was
\* connected and it gets True, or the install failed, nothing was connected,
\* Blocked "Failed to install snap <snap>" was set and it gets False.
C40_EnsureSnapPresent ==
    [][last'.ensured # <<>>
          => /\ snap_present
                => /\ last'.installs = 0 /\ last'.connects = 0
                   /\ last'.ensured = <<TRUE>>
                   /\ snap_present' /\ ~last'.install_blocked
             /\ ~snap_present
                => /\ last'.installs = 1
                   /\ last'.ensured = <<TRUE>>
                        => (snap_present' /\ last'.connects = 1
                            /\ ~last'.install_blocked)
                   /\ last'.ensured = <<FALSE>>
                        => /\ ~snap_present' /\ last'.connects = 0
                           /\ last'.install_blocked
                           /\ ~last'.configured => unit_status' = BlockedInstall]_vars

\* The snap was present: nothing installed, nothing connected, True.
C40_Witness ==
    /\ last.ensured = <<TRUE>> /\ last.installs = 0 /\ last.connects = 0
    /\ snap_present /\ ~last.configured

====
